---- MODULE Spec2Model ----
(***************************************************************************)
(* A model of the learning core of MineAgent: the TrajectoryBuffer, the    *)
(* step of AgentV1.act, PPO.update and ICM.update with their mini-batch    *)
(* loops, PPO._finalize_trajectory and discount_cumsum.                    *)
(*                                                                         *)
(* Real numbers are exact rationals <<n, d>> in lowest terms with d > 0;   *)
(* <<0, 0>> is NaN (the mean of an empty tensor).  The parameters of a     *)
(* network are identified with the number of optimizer.step() calls that   *)
(* were applied to them.                                                   *)
(***************************************************************************)
EXTENDS Integers, Sequences, FiniteSets, TLC

VARIABLES
    config,                 \* AgentConfig: capacity and iteration counts
    memory,                 \* AgentV1.memory, the TrajectoryBuffer
    prev_visual_features,   \* AgentV1.prev_visual_features
    optim_steps,            \* per network: optimizer.step() calls applied so far
    training,               \* per network: nn.Module.training
    pc,                     \* position of the single thread of control
    cur,                    \* the locals of the act call in flight
    data,                   \* the PPOSample / ICMSample of the update in flight
    gen,                    \* the generator of data.get(...) being iterated
    n_acts,                 \* act calls started so far
    events,                 \* the calls made by the act call in flight, in order
    kl_log,                 \* kl of each actor mini-batch of the update in flight
    actor_steps,            \* actor_optim.step() calls of the update in flight
    fwd_at_start,           \* optim_steps.forward when the act call in flight began
    history,                \* the log of the caller: the argument tuples passed to
                            \* store, or the results of env.step, in call order
    arg,                    \* input of the function under examination
    ret,                    \* its result
    event_bus               \* AgentV1.event_bus, the EventBus

vars == <<config, memory, prev_visual_features, optim_steps, training, pc, cur,
          data, gen, n_acts, events, kl_log, actor_steps, fwd_at_start, history,
          arg, ret, event_bus>>

-----------------------------------------------------------------------------
(* Bounds of the exploration *)

MaxCap == 3
MaxActs == 4
MaxIters == 2
MaxOptSteps == 4
MaxStores == 4
MaxLen == 4
MaxX == 4
MaxT == 3
MaxRows == 4
MaxBatch == 3
MaxPasses == 2
MaxSubs == 2
MaxCalls == 2

-----------------------------------------------------------------------------
(* Exact rational arithmetic *)

Abs(n) == IF n < 0 THEN -n ELSE n

RECURSIVE GCD(_, _)
GCD(a, b) == IF b = 0 THEN a ELSE GCD(b, a % b)

NaN == <<0, 0>>

IsNaN(a) == a[2] = 0

Norm(n, d) ==
    LET g == GCD(Abs(n), d)
    IN  <<n \div g, d \div g>>

R(i) == <<i, 1>>

RAdd(a, b) ==
    IF IsNaN(a) \/ IsNaN(b) THEN NaN
    ELSE Norm(a[1] * b[2] + b[1] * a[2], a[2] * b[2])

RNeg(a) == <<-a[1], a[2]>>

RSub(a, b) == RAdd(a, RNeg(b))

RMul(a, b) ==
    IF IsNaN(a) \/ IsNaN(b) THEN NaN
    ELSE Norm(a[1] * b[1], a[2] * b[2])

\* IEEE comparison: every comparison with NaN is false
RGt(a, b) == ~IsNaN(a) /\ ~IsNaN(b) /\ a[1] * b[2] > b[1] * a[2]

-----------------------------------------------------------------------------
(* Sequences *)

Reverse(s) == [i \in 1..Len(s) |-> s[Len(s) + 1 - i]]

\* s[:-1]
ButLast(s) == SubSeq(s, 1, Len(s) - 1)

\* s[1:]
ButFirst(s) == SubSeq(s, 2, Len(s))

\* s[lo:hi] of Python, 0-based and clipped to the length, for 0 <= lo <= hi
Slice(s, lo, hi) ==
    SubSeq(s, lo + 1, IF hi > Len(s) THEN Len(s) ELSE hi)

Min(S) == CHOOSE m \in S : \A n \in S : m <= n

-----------------------------------------------------------------------------
(* TrajectoryBuffer, memory/trajectory.py *)

\* collections.deque(maxlen).append: drop from the left once full
deque_append_keeps_oldest(q, x, maxlen) ==
    IF Len(q) < maxlen THEN Append(q, x) ELSE q

deque_append(q, x, maxlen) ==
    LET a == Append(q, x)
    IN  IF Len(a) > maxlen THEN SubSeq(a, Len(a) - maxlen + 1, Len(a)) ELSE a

TrajectoryBuffer(max_buffer_size) ==
    [max_buffer_size |-> max_buffer_size,
     features_buffer |-> <<>>,
     actions_buffer |-> <<>>,
     rewards_buffer |-> <<>>,
     intrinsic_rewards_buffer |-> <<>>,
     values_buffer |-> <<>>,
     log_probs_buffer |-> <<>>]

\* TrajectoryBuffer.__len__
BufLen(buf) == Len(buf.features_buffer)

store_misaligned(buf, a) ==
    LET m == buf.max_buffer_size
    IN  [buf EXCEPT
            !.features_buffer = deque_append(@, a.visual_features, m),
            !.actions_buffer = deque_append(@, a.action, m),
            !.rewards_buffer = deque_append(@, a.intrinsic_reward, m),
            !.intrinsic_rewards_buffer = deque_append(@, a.reward, m),
            !.values_buffer = deque_append(@, a.value, m),
            !.log_probs_buffer = deque_append(@, a.log_prob, m)]

\* TrajectoryBuffer.store; a is the tuple of its six arguments
store(buf, a) ==
    LET m == buf.max_buffer_size
    IN  [buf EXCEPT
            !.features_buffer = deque_append(@, a.visual_features, m),
            !.actions_buffer = deque_append(@, a.action, m),
            !.rewards_buffer = deque_append(@, a.reward, m),
            !.intrinsic_rewards_buffer = deque_append(@, a.intrinsic_reward, m),
            !.values_buffer = deque_append(@, a.value, m),
            !.log_probs_buffer = deque_append(@, a.log_prob, m)]

\* Record i of the buffer, as the argument tuple that produced it
RecordAt(buf, i) ==
    [visual_features |-> buf.features_buffer[i],
     action |-> buf.actions_buffer[i],
     reward |-> buf.rewards_buffer[i],
     intrinsic_reward |-> buf.intrinsic_rewards_buffer[i],
     value |-> buf.values_buffer[i],
     log_prob |-> buf.log_probs_buffer[i]]

-----------------------------------------------------------------------------
(* discount_cumsum, utils.py *)

\* scipy.signal.lfilter([1], [1, a1], x): y[n] = x[n] - a1 * y[n-1]
RECURSIVE lfilter(_, _)
lfilter(a1, x) ==
    IF x = <<>> THEN <<>>
    ELSE LET y == lfilter(a1, ButLast(x))
             xn == x[Len(x)]
         IN  Append(y, IF y = <<>> THEN xn ELSE RSub(xn, RMul(a1, y[Len(y)])))

discount_cumsum_unreversed(x, discount) == lfilter(RNeg(discount), Reverse(x))

\* lfilter([1], [1, float(-discount)], x[::-1], axis=0)[::-1]
discount_cumsum(x, discount) == Reverse(lfilter(RNeg(discount), Reverse(x)))

\* torch.tensor(list(...)) of a buffer of scalars
ToTensor(s) == [i \in 1..Len(s) |-> R(s[i])]

-----------------------------------------------------------------------------
(* PPO._finalize_trajectory and ICM._finalize_trajectory *)

\* a finalize that raises on the empty store only
FinalizeRaises_OnEmpty(buf) == buf.features_buffer = <<>>

\* torch.stack of an empty list raises: list(buffer)[:-1] is empty for len <= 1
FinalizeRaises(buf) == ButLast(buf.features_buffer) = <<>>

\* a finalize that pairs row i with the reward signal of record i itself
PPO_finalize_trajectory_unshifted(buf, gamma, lambda) ==
    LET env_rewards == ToTensor(ButLast(buf.rewards_buffer))
        intrinsic_rewards == ToTensor(ButLast(buf.intrinsic_rewards_buffer))
        rewards == [i \in 1..Len(env_rewards) |->
                        RAdd(env_rewards[i], intrinsic_rewards[i])]
        values == ToTensor(buf.values_buffer)
        deltas == [i \in 1..Len(rewards) |->
                        RSub(RAdd(rewards[i], RMul(gamma, values[i + 1])),
                             values[i])]
    IN  [features |-> ButLast(buf.features_buffer),
         actions |-> ButLast(buf.actions_buffer),
         returns |-> discount_cumsum(rewards, gamma),
         advantages |-> discount_cumsum(deltas, RMul(gamma, lambda)),
         log_probabilities |-> ButLast(buf.log_probs_buffer)]

\* a finalize that lets the oldest intrinsic reward into the last row
PPO_finalize_trajectory_wrapped(buf, gamma, lambda) ==
    LET env_rewards == ToTensor(ButFirst(buf.rewards_buffer))
        intrinsic_rewards ==
            ToTensor(Append(ButFirst(ButFirst(buf.intrinsic_rewards_buffer)),
                            buf.intrinsic_rewards_buffer[1]))
        rewards == [i \in 1..Len(env_rewards) |->
                        RAdd(env_rewards[i], intrinsic_rewards[i])]
        values == ToTensor(buf.values_buffer)
        deltas == [i \in 1..Len(rewards) |->
                        RSub(RAdd(rewards[i], RMul(gamma, values[i + 1])),
                             values[i])]
    IN  [features |-> ButLast(buf.features_buffer),
         actions |-> ButLast(buf.actions_buffer),
         returns |-> discount_cumsum(rewards, gamma),
         advantages |-> discount_cumsum(deltas, RMul(gamma, lambda)),
         log_probabilities |-> ButLast(buf.log_probs_buffer)]

\* a finalize whose advantages are discounted by gamma alone
PPO_finalize_trajectory_gamma(buf, gamma, lambda) ==
    LET env_rewards == ToTensor(ButFirst(buf.rewards_buffer))
        intrinsic_rewards == ToTensor(ButFirst(buf.intrinsic_rewards_buffer))
        rewards == [i \in 1..Len(env_rewards) |->
                        RAdd(env_rewards[i], intrinsic_rewards[i])]
        values == ToTensor(buf.values_buffer)
        deltas == [i \in 1..Len(rewards) |->
                        RSub(RAdd(rewards[i], RMul(gamma, values[i + 1])),
                             values[i])]
    IN  [features |-> ButLast(buf.features_buffer),
         actions |-> ButLast(buf.actions_buffer),
         returns |-> discount_cumsum(rewards, gamma),
         advantages |-> discount_cumsum(deltas, gamma),
         log_probabilities |-> ButLast(buf.log_probs_buffer)]

\* PPO._finalize_trajectory, for a buffer on which it does not raise;
\* gamma is discount_factor and lambda is gae_discount_factor
PPO_finalize_trajectory(buf, gamma, lambda) ==
    LET env_rewards == ToTensor(ButFirst(buf.rewards_buffer))
        intrinsic_rewards == ToTensor(ButFirst(buf.intrinsic_rewards_buffer))
        rewards == [i \in 1..Len(env_rewards) |->
                        RAdd(env_rewards[i], intrinsic_rewards[i])]
        values == ToTensor(buf.values_buffer)
        \* rewards + discount_factor * values[1:] - values[:-1]
        deltas == [i \in 1..Len(rewards) |->
                        RSub(RAdd(rewards[i], RMul(gamma, values[i + 1])),
                             values[i])]
    IN  [features |-> ButLast(buf.features_buffer),
         actions |-> ButLast(buf.actions_buffer),
         returns |-> discount_cumsum(rewards, gamma),
         advantages |-> discount_cumsum(deltas, RMul(gamma, lambda)),
         log_probabilities |-> ButLast(buf.log_probs_buffer)]

\* a finalize that pairs every row with its own features as the next ones
ICM_finalize_trajectory_same(buf) ==
    [features |-> ButLast(buf.features_buffer),
     next_features |-> ButLast(buf.features_buffer),
     actions |-> ButLast(buf.actions_buffer)]

\* ICM._finalize_trajectory, for a buffer on which it does not raise
ICM_finalize_trajectory(buf) ==
    [features |-> ButLast(buf.features_buffer),
     next_features |-> ButFirst(buf.features_buffer),
     actions |-> ButLast(buf.actions_buffer)]

\* PPOSample.__len__ / ICMSample.__len__
SampleLen(d) == Len(d.features)

-----------------------------------------------------------------------------
(* Configuration, config.py *)

Caps == 1..MaxCap
Iters == 1..MaxIters

\* PPOConfig.discount_factor and gae_discount_factor; the defaults 0.99 and 0.97
\* are replaced by 1/2 so that every numerator stays in TLC's integer range
discount_factor == <<1, 2>>
gae_discount_factor == <<1, 2>>

\* PPOConfig.target_kl = 0.01
target_kl == <<1, 100>>

\* ICMConfig.scaling_factor = 1.0
scaling_factor == 1

\* The configurations explored: every capacity, the two PPO iteration counts
\* free, the two ICM iteration counts the PPO ones swapped
Configs ==
    {[max_buffer_size |-> n,
      train_actor_iters |-> a,
      train_critic_iters |-> c,
      train_inverse_dynamics_iters |-> c,
      train_forward_dynamics_iters |-> a] : n \in Caps, a \in Iters, c \in Iters}

NoConfig ==
    [max_buffer_size |-> 0,
     train_actor_iters |-> 1,
     train_critic_iters |-> 1,
     train_inverse_dynamics_iters |-> 1,
     train_forward_dynamics_iters |-> 1]

Networks == {"actor", "critic", "inverse", "forward"}

\* EventBus.__init__: no listeners, enabled
EventBus == [listeners |-> [t \in {} |-> <<>>], enabled |-> TRUE]

NoLocals == [in_act |-> FALSE]
NoData == [kind |-> "none"]
NoGen == [live |-> FALSE]

\* The agent right after AgentV1.__init__ with configuration c: an empty buffer,
\* zero features, untrained networks, every nn.Module in its default training mode
AgentConstructed(c) ==
    /\ config = c
    /\ memory = TrajectoryBuffer(c.max_buffer_size)
    /\ prev_visual_features = 0
    /\ optim_steps = [n \in Networks |-> 0]
    /\ training = [n \in Networks |-> TRUE]
    /\ cur = NoLocals
    /\ data = NoData
    /\ gen = NoGen
    /\ n_acts = 0
    /\ events = <<>>
    /\ kl_log = <<>>
    /\ actor_steps = 0
    /\ fwd_at_start = 0
    /\ event_bus = EventBus

AgentUnchanged ==
    UNCHANGED <<config, prev_visual_features, optim_steps, training, cur, data,
                gen, n_acts, events, kl_log, actor_steps, fwd_at_start,
                event_bus>>

-----------------------------------------------------------------------------
(* The TrajectoryBuffer on its own: store called with arbitrary arguments *)

StoreArgs ==
    {[visual_features |-> f,
      action |-> 10 + f,
      reward |-> r,
      intrinsic_reward |-> 30 + r,
      value |-> 40 + f,
      log_prob |-> 50 + r] : f \in 1..2, r \in 1..2}

InitBuf ==
    /\ \E n \in 0..MaxCap :
          AgentConstructed([NoConfig EXCEPT !.max_buffer_size = n])
    /\ pc = "buffer"
    /\ history = <<>>
    /\ arg = <<>>
    /\ ret = <<>>

\* trajectory.store(...)
BufStore(a) ==
    /\ pc = "buffer"
    /\ Len(history) < MaxStores
    /\ memory' = store(memory, a)
    /\ history' = Append(history, a)
    /\ AgentUnchanged
    /\ UNCHANGED <<pc, arg, ret>>

NextBuf == \E a \in StoreArgs : BufStore(a)

SpecBuf == InitBuf /\ [][NextBuf]_vars

\* the smaller of two numbers
Smaller(a, b) == IF a < b THEN a ELSE b

\* C1: the buffer holds exactly the last min(k, N) records stored, in store
\* order and in every one of the six fields; after exactly N stores index 0 is
\* the first record ever stored, after N + 1 stores it is the second one
C1_LastRecordsKept ==
    pc = "buffer" =>
        LET k == Len(history)
            N == memory.max_buffer_size
            n == Smaller(k, N)
        IN  /\ BufLen(memory) = n
            /\ \A i \in 1..n : RecordAt(memory, i) = history[k - n + i]
            /\ (k = N /\ N >= 1) => RecordAt(memory, 1) = history[1]
            /\ (k = N + 1 /\ N >= 1) => RecordAt(memory, 1) = history[2]

\* an eviction happened: N + 1 stores, and the first record differs from the second
C1_Witness ==
    /\ pc = "buffer"
    /\ memory.max_buffer_size >= 2
    /\ Len(history) = memory.max_buffer_size + 1
    /\ history[1] # history[2]
    /\ RecordAt(memory, 1) = history[2]

BufferFields ==
    {"features_buffer", "actions_buffer", "rewards_buffer",
     "intrinsic_rewards_buffer", "values_buffer", "log_probs_buffer"}

\* C2: the six buffers have one length, min(number of stores, N) <= N, and
\* index i of each of them holds the arguments of one and the same store call
C2_ParallelBuffers ==
    pc = "buffer" =>
        /\ \A f \in BufferFields : Len(memory[f]) = Len(memory.features_buffer)
        /\ BufLen(memory) = Smaller(Len(history), memory.max_buffer_size)
        /\ BufLen(memory) <= memory.max_buffer_size
        /\ \A i \in 1..BufLen(memory) :
              \E j \in 1..Len(history) : RecordAt(memory, i) = history[j]

\* a full buffer of at least two records, after an eviction
C2_Witness ==
    /\ pc = "buffer"
    /\ BufLen(memory) = memory.max_buffer_size
    /\ BufLen(memory) >= 2
    /\ Len(history) > BufLen(memory)

-----------------------------------------------------------------------------
(* discount_cumsum on its own: every input up to the bounds *)

XVals == 0..MaxX

\* the discounts of tests/test_utils.py: 0.0, 0.5 and 1.0
Discounts == {<<0, 1>>, <<1, 2>>, <<1, 1>>}

InitCumsum ==
    /\ AgentConstructed(NoConfig)
    /\ history = <<>>
    /\ pc = "cumsum_call"
    /\ \E T \in 1..MaxLen : \E x \in [1..T -> XVals] : \E d \in Discounts :
          arg = [x |-> ToTensor(x), discount |-> d]
    /\ ret = <<>>

\* y = discount_cumsum(x, discount)
CallDiscountCumsum ==
    /\ pc = "cumsum_call"
    /\ ret' = discount_cumsum(arg.x, arg.discount)
    /\ pc' = "cumsum_done"
    /\ AgentUnchanged
    /\ UNCHANGED <<memory, history, arg>>

NextCumsum == CallDiscountCumsum

SpecCumsum == InitCumsum /\ [][NextCumsum]_vars

\* C8: y has the length of x, y[T-1] = x[T-1] and y[t] = x[t] + d * y[t+1] for
\* t < T-1; so d = 0 gives x itself and d = 1 the reverse cumulative sum, and
\* [1,2,3,4] gives [10,9,7,4] for d = 1 and [3.25,4.5,5,4] for d = 0.5
C8_DiscountCumsum ==
    pc = "cumsum_done" =>
        LET x == arg.x
            d == arg.discount
            T == Len(x)
        IN  /\ Len(ret) = T
            /\ ret[T] = x[T]
            /\ \A t \in 1..(T - 1) : ret[t] = RAdd(x[t], RMul(d, ret[t + 1]))
            /\ d = <<0, 1>> => ret = x
            /\ d = <<1, 1>> =>
                  \A t \in 1..(T - 1) : RSub(ret[t], ret[t + 1]) = x[t]
            /\ (x = <<R(1), R(2), R(3), R(4)>> /\ d = <<1, 1>>) =>
                  ret = <<R(10), R(9), R(7), R(4)>>
            /\ (x = <<R(1), R(2), R(3), R(4)>> /\ d = <<1, 2>>) =>
                  ret = <<<<13, 4>>, <<9, 2>>, R(5), R(4)>>

\* the second case of the unit test was computed
C8_Witness ==
    /\ pc = "cumsum_done"
    /\ arg.x = <<R(1), R(2), R(3), R(4)>>
    /\ arg.discount = <<1, 2>>
    /\ ret[1] = <<13, 4>>

-----------------------------------------------------------------------------
(* PPO._finalize_trajectory on its own: two buffers that differ at most in the
   reward and the intrinsic reward of their oldest record *)

FinRecords ==
    {[visual_features |-> f,
      action |-> 10 + f,
      reward |-> r,
      intrinsic_reward |-> ir,
      value |-> v,
      log_prob |-> 0 - f] : f \in 0..1, r \in 0..1, ir \in 0..1, v \in 0..1}

\* the buffer of capacity Len(recs) after storing recs in order
RECURSIVE Stored(_, _)
Stored(cap, recs) ==
    IF recs = <<>> THEN TrajectoryBuffer(cap)
    ELSE store(Stored(cap, ButLast(recs)), recs[Len(recs)])

\* the outcome of finalizing: raised, or the PPOSample
FinalizeOutcome(buf) ==
    IF FinalizeRaises(buf) THEN [raised |-> TRUE]
    ELSE [raised |-> FALSE,
          sample |-> PPO_finalize_trajectory(buf, discount_factor,
                                             gae_discount_factor)]

InitFinalize ==
    /\ AgentConstructed(NoConfig)
    /\ history = <<>>
    /\ pc = "finalize_call"
    /\ \E T \in 0..MaxT : \E recs \in [1..T -> FinRecords] :
       \E z \in 0..1 :
          LET a == Stored(T, recs)
              b == IF T = 0 THEN a
                   ELSE [a EXCEPT !.rewards_buffer[1] = z,
                                  !.intrinsic_rewards_buffer[1] = 1 - z]
          IN  arg = [a |-> a, b |-> b]
    /\ ret = <<>>

\* ppo._finalize_trajectory(a); ppo._finalize_trajectory(b)
CallFinalize ==
    /\ pc = "finalize_call"
    /\ ret' = [a |-> FinalizeOutcome(arg.a), b |-> FinalizeOutcome(arg.b)]
    /\ pc' = "finalize_done"
    /\ AgentUnchanged
    /\ UNCHANGED <<memory, history, arg>>

\* the outcome of ICM's finalizing: raised, or the ICMSample
ICMFinalizeOutcome(buf) ==
    IF FinalizeRaises(buf) THEN [raised |-> TRUE]
    ELSE [raised |-> FALSE, sample |-> ICM_finalize_trajectory(buf)]

\* icm._finalize_trajectory(a)
CallICMFinalize ==
    /\ pc = "finalize_call"
    /\ ret' = [icm |-> ICMFinalizeOutcome(arg.a)]
    /\ pc' = "icm_finalize_done"
    /\ AgentUnchanged
    /\ UNCHANGED <<memory, history, arg>>

NextFinalize ==
    \/ CallFinalize
    \/ CallICMFinalize

SpecFinalize == InitFinalize /\ [][NextFinalize]_vars

\* C6: for T >= 2 the sample has T-1 rows; row i carries features, action and
\* log-probability of record i, and its reward signal is that of record i+1:
\* returns[i] = rewards[i+1] + intrinsic_rewards[i+1] + discount * returns[i+1]
C6_RowsShifted ==
    (pc = "finalize_done" /\ BufLen(arg.a) >= 2) =>
        LET T == BufLen(arg.a)
            buf == arg.a
            s == ret.a.sample
            signal(i) == R(buf.rewards_buffer[i + 1]
                           + buf.intrinsic_rewards_buffer[i + 1])
        IN  /\ ~ret.a.raised
            /\ Len(s.features) = T - 1
            /\ Len(s.actions) = T - 1
            /\ Len(s.log_probabilities) = T - 1
            /\ Len(s.returns) = T - 1
            /\ Len(s.advantages) = T - 1
            /\ \A i \in 1..(T - 1) :
                  /\ s.features[i] = buf.features_buffer[i]
                  /\ s.actions[i] = buf.actions_buffer[i]
                  /\ s.log_probabilities[i] = buf.log_probs_buffer[i]
            /\ s.returns[T - 1] = signal(T - 1)
            /\ \A i \in 1..(T - 2) :
                  s.returns[i] =
                      RAdd(signal(i), RMul(discount_factor, s.returns[i + 1]))

\* three records whose rewards tell the shift apart
C6_Witness ==
    /\ pc = "finalize_done"
    /\ BufLen(arg.a) = 3
    /\ arg.a.rewards_buffer = <<1, 0, 1>>
    /\ arg.a.intrinsic_rewards_buffer = <<0, 0, 1>>
    /\ arg.a.features_buffer = <<0, 1, 1>>
    /\ ret.a.sample.returns = <<R(1), R(2)>>

\* C7: two stores that differ only in rewards[0] and intrinsic_rewards[0]
\* finalize to the same sample
C7_OldestRewardUnused ==
    pc = "finalize_done" => ret.a = ret.b

\* the two stores do differ, in both fields, and were finalized to a sample
C7_Witness ==
    /\ pc = "finalize_done"
    /\ BufLen(arg.a) = 3
    /\ arg.a.rewards_buffer[1] # arg.b.rewards_buffer[1]
    /\ arg.a.intrinsic_rewards_buffer[1] # arg.b.intrinsic_rewards_buffer[1]
    /\ ~ret.a.raised
    /\ ret.a.sample.returns = ret.b.sample.returns

\* the combined reward of record t of a buffer, t >= 2
CombinedReward(buf, t) ==
    RAdd(R(buf.rewards_buffer[t]), R(buf.intrinsic_rewards_buffer[t]))

\* C22: for a buffer of T >= 2 records with combined rewards r and values v,
\* row t of the sample (t in 1..T-1) has
\*   delta[t]      = r[t+1] + gamma * v[t+1] - v[t]
\*   advantages[t] = delta[t] + gamma * lambda * advantages[t+1]
\*   returns[t]    = r[t+1] + gamma * returns[t+1]
\* with nothing after the last row, so the value of the last record is read
\* by the last delta only as the value that follows, and the advantages are
\* these sums themselves, not a normalisation of them
C22_Advantages ==
    (pc = "finalize_done" /\ ~ret.a.raised) =>
        LET buf == arg.a
            T == BufLen(buf)
            s == ret.a.sample
            gamma == discount_factor
            lambda == gae_discount_factor
            delta(t) == RSub(RAdd(CombinedReward(buf, t + 1),
                                  RMul(gamma, R(buf.values_buffer[t + 1]))),
                             R(buf.values_buffer[t]))
        IN  /\ Len(s.advantages) = T - 1
            /\ Len(s.returns) = T - 1
            /\ \A t \in 1..(T - 1) :
                  /\ s.advantages[t] =
                        IF t = T - 1 THEN delta(t)
                        ELSE RAdd(delta(t),
                                  RMul(RMul(gamma, lambda),
                                       s.advantages[t + 1]))
                  /\ s.returns[t] =
                        IF t = T - 1 THEN CombinedReward(buf, t + 1)
                        ELSE RAdd(CombinedReward(buf, t + 1),
                                  RMul(gamma, s.returns[t + 1]))

\* three records of combined reward 2 and values 1, 0, 1: the deltas are
\* 1 and 5/2, the advantages 1 + 5/8 and 5/2, the returns 3 and 2
C22_Witness ==
    /\ pc = "finalize_done"
    /\ BufLen(arg.a) = 3
    /\ arg.a.values_buffer = <<1, 0, 1>>
    /\ ~ret.a.raised
    /\ ret.a.sample.advantages = <<<<13, 8>>, <<5, 2>>>>
    /\ ret.a.sample.returns = <<R(3), R(2)>>

\* C15: for T >= 2 the ICMSample has T-1 rows; row i holds the features and the
\* action of record i and, as next_features, the features of record i+1
C15_ICMRowsPaired ==
    (pc = "icm_finalize_done" /\ BufLen(arg.a) >= 2) =>
        LET T == BufLen(arg.a)
            buf == arg.a
            s == ret.icm.sample
        IN  /\ ~ret.icm.raised
            /\ Len(s.features) = T - 1
            /\ Len(s.next_features) = T - 1
            /\ Len(s.actions) = T - 1
            /\ \A i \in 1..(T - 1) :
                  /\ s.features[i] = buf.features_buffer[i]
                  /\ s.next_features[i] = buf.features_buffer[i + 1]
                  /\ s.actions[i] = buf.actions_buffer[i]

\* three records whose features tell a row from the next one
C15_Witness ==
    /\ pc = "icm_finalize_done"
    /\ arg.a.features_buffer = <<0, 1, 0>>
    /\ ret.icm.sample.features = <<0, 1>>
    /\ ret.icm.sample.next_features = <<1, 0>>

-----------------------------------------------------------------------------
(* The networks.  Each is a function of its parameters (the optimizer steps
   applied to it) and its input; these stand in for the nn.Modules, whose
   arithmetic the model does not follow. *)

Embeddings == 0..1
Actions == 0..1

\* LinearCritic.forward
LinearCritic(steps, x) == (steps + x) % 2

\* the log-probability sample_action returns for action a drawn from LinearAffector
logp_action(steps, x, a) == 0 - (1 + ((steps + x + a) % 2))

\* ForwardDynamics.forward
ForwardDynamics(steps, x, a) == (steps + x + a) % 2

\* F.mse_loss of two embeddings
mse_loss(x, y) == (x - y) * (x - y)

\* a reward that keeps the sign of the prediction error
intrinsic_reward_signed(steps, embedding, action, next_embedding) ==
    scaling_factor * (ForwardDynamics(steps, embedding, action) - next_embedding)

\* ICM.intrinsic_reward
intrinsic_reward(steps, embedding, action, next_embedding) ==
    scaling_factor * mse_loss(ForwardDynamics(steps, embedding, action),
                              next_embedding)

-----------------------------------------------------------------------------
(* PPOSample.get / ICMSample.get *)

\* np.random.permutation(size): the orders of the row indices 0..size-1
permutation(size) ==
    {p \in [1..size -> 0..(size - 1)] :
        \A i, j \in 1..size : p[i] = p[j] => i = j}

\* the generator at its first yield
get(indices, batch_size) ==
    [live |-> TRUE, indices |-> indices, start_idx |-> 0,
     batch_size |-> batch_size, size |-> Len(indices)]

\* a generator that yields the first batch_size indices again and again
batch_ind_first(g) == Slice(g.indices, 0, g.batch_size)

\* indices[start_idx : start_idx + batch_size]
batch_ind(g) == Slice(g.indices, g.start_idx, g.start_idx + g.batch_size)

\* start_idx += batch_size
advance(g) == [g EXCEPT !.start_idx = @ + g.batch_size]

\* while start_idx < size
has_batch(g) == g.start_idx < g.size

-----------------------------------------------------------------------------
(* _compute_actor_loss *)

\* the kl a mini-batch can have: NaN, the mean of nothing, for an empty batch
KLValues(batch) ==
    IF batch = <<>> THEN {NaN} ELSE {<<15, 1000>>, <<16, 1000>>}

\* kl > 1.5 * self.target_kl
early_stop(kl) == RGt(kl, RMul(<<3, 2>>, target_kl))

-----------------------------------------------------------------------------
(* AgentV1.act, agent/agent.py, as engine.run calls it: agent.act(obs) *)

Init ==
    /\ \E c \in Configs : AgentConstructed(c)
    /\ pc = "idle"
    /\ history = <<>>
    /\ arg = <<>>
    /\ ret = <<>>

\* act and the updates leave the caller's variables alone, and publish nothing
\* while monitor_actions is False
PureUnchanged == UNCHANGED <<history, arg, ret, event_bus>>

Log(e) == events' = Append(events, e)

\* act, lines 82-87: the forward passes of vision, affector and critic and
\* sample_action.  The features of the observation and the sampled action are
\* the inputs of the step; reward is the default 0.0.
Act_Forward(visual_features, action) ==
    /\ pc = "idle"
    /\ n_acts < MaxActs
    /\ n_acts' = n_acts + 1
    /\ cur' = [in_act |-> TRUE,
               visual_features |-> visual_features,
               action |-> action,
               reward |-> 0,
               value |-> LinearCritic(optim_steps.critic, visual_features),
               logp_action |-> logp_action(optim_steps.actor, visual_features,
                                           action)]
    /\ events' = <<>>
    /\ fwd_at_start' = optim_steps.forward
    /\ pc' = "act_reward"
    /\ UNCHANGED <<config, memory, prev_visual_features, optim_steps, training,
                   data, gen, kl_log, actor_steps>>
    /\ PureUnchanged

\* a step that trains the forward model on the transition before scoring it
Act_IntrinsicReward_Trains ==
    /\ pc = "act_reward"
    /\ optim_steps' = [optim_steps EXCEPT !.forward = @ + 1]
    /\ cur' = [in_act |-> TRUE,
               visual_features |-> cur.visual_features,
               action |-> cur.action,
               reward |-> cur.reward,
               value |-> cur.value,
               logp_action |-> cur.logp_action,
               intrinsic_reward |->
                   intrinsic_reward(optim_steps'.forward, prev_visual_features,
                                    cur.action, cur.visual_features),
               reward_params |-> optim_steps'.forward]
    /\ Log("intrinsic_reward")
    /\ pc' = "act_store"
    /\ UNCHANGED <<config, memory, prev_visual_features, training, data, gen,
                   n_acts, kl_log, actor_steps, fwd_at_start>>
    /\ PureUnchanged

\* act, lines 89-93: self.icm.intrinsic_reward(prev_visual_features, action,
\* visual_features); reward_params records the parameters it was computed with
Act_IntrinsicReward ==
    /\ pc = "act_reward"
    /\ cur' = [in_act |-> TRUE,
               visual_features |-> cur.visual_features,
               action |-> cur.action,
               reward |-> cur.reward,
               value |-> cur.value,
               logp_action |-> cur.logp_action,
               intrinsic_reward |->
                   intrinsic_reward(optim_steps.forward, prev_visual_features,
                                    cur.action, cur.visual_features),
               reward_params |-> optim_steps.forward]
    /\ Log("intrinsic_reward")
    /\ pc' = "act_store"
    /\ UNCHANGED <<config, memory, prev_visual_features, optim_steps, training,
                   data, gen, n_acts, kl_log, actor_steps, fwd_at_start>>
    /\ PureUnchanged

\* act, lines 95-97: self.memory.store(...)
Act_Store ==
    /\ pc = "act_store"
    /\ memory' = store(memory,
                       [visual_features |-> cur.visual_features,
                        action |-> cur.action,
                        reward |-> cur.reward,
                        intrinsic_reward |-> cur.intrinsic_reward,
                        value |-> cur.value,
                        log_prob |-> cur.logp_action])
    /\ Log("store")
    /\ pc' = "act_check"
    /\ UNCHANGED <<config, prev_visual_features, optim_steps, training, cur,
                   data, gen, n_acts, kl_log, actor_steps, fwd_at_start>>
    /\ PureUnchanged

\* a check that starts learning one record early
Act_CheckFull_Early ==
    /\ pc = "act_check"
    /\ pc' = IF BufLen(memory) + 1 >= config.max_buffer_size
             THEN "ppo_update" ELSE "act_finish"
    /\ UNCHANGED <<config, memory, prev_visual_features, optim_steps, training,
                   cur, data, gen, n_acts, events, kl_log, actor_steps,
                   fwd_at_start>>
    /\ PureUnchanged

\* act, line 100: if len(self.memory) == self.config.max_buffer_size
Act_CheckFull ==
    /\ pc = "act_check"
    /\ pc' = IF BufLen(memory) = config.max_buffer_size
             THEN "ppo_update" ELSE "act_finish"
    /\ UNCHANGED <<config, memory, prev_visual_features, optim_steps, training,
                   cur, data, gen, n_acts, events, kl_log, actor_steps,
                   fwd_at_start>>
    /\ PureUnchanged

\* act, lines 104-120: remember the features and return the action
Act_Finish ==
    /\ pc = "act_finish"
    /\ prev_visual_features' = cur.visual_features
    /\ cur' = NoLocals
    /\ data' = NoData
    /\ gen' = NoGen
    /\ events' = <<>>
    /\ kl_log' = <<>>
    /\ actor_steps' = 0
    /\ pc' = "idle"
    /\ UNCHANGED <<config, memory, optim_steps, training, n_acts, fwd_at_start>>
    /\ PureUnchanged

-----------------------------------------------------------------------------
(* PPO.update, learning/ppo.py *)

\* an update that empties the buffer it has finalized
PPO_Update_Clears ==
    /\ pc = "ppo_update"
    /\ Log("ppo_update")
    /\ kl_log' = <<>>
    /\ actor_steps' = 0
    /\ IF FinalizeRaises(memory)
       THEN /\ pc' = "raised"
            /\ UNCHANGED <<data, memory>>
       ELSE /\ data' = PPO_finalize_trajectory(memory, discount_factor,
                                               gae_discount_factor)
            /\ memory' = TrajectoryBuffer(memory.max_buffer_size)
            /\ pc' = "actor_begin"
    /\ UNCHANGED <<config, prev_visual_features, optim_steps, training,
                   cur, gen, n_acts, fwd_at_start>>
    /\ PureUnchanged

\* update, line 220: data = self._finalize_trajectory(trajectory)
PPO_Update ==
    /\ pc = "ppo_update"
    /\ Log("ppo_update")
    /\ kl_log' = <<>>
    /\ actor_steps' = 0
    /\ IF FinalizeRaises(memory)
       THEN /\ pc' = "raised"
            /\ UNCHANGED data
       ELSE /\ data' = PPO_finalize_trajectory(memory, discount_factor,
                                               gae_discount_factor)
            /\ pc' = "actor_begin"
    /\ UNCHANGED <<config, memory, prev_visual_features, optim_steps, training,
                   cur, gen, n_acts, fwd_at_start>>
    /\ PureUnchanged

\* net.train() and the first next() of data.get(shuffle=True,
\* batch_size=len(data) // iters)
PhaseBegin(net, iters, here, loop) ==
    /\ pc = here
    /\ training' = [training EXCEPT ![net] = TRUE]
    /\ \E indices \in permutation(SampleLen(data)) :
          gen' = get(indices, SampleLen(data) \div iters)
    /\ pc' = loop
    /\ UNCHANGED <<config, memory, prev_visual_features, optim_steps, cur, data,
                   n_acts, events, kl_log, actor_steps, fwd_at_start>>
    /\ PureUnchanged

\* a mini-batch whose optimizer was built over the parameters of all four
\* networks
PhaseBatch_AllNets(net, loop) ==
    /\ pc = loop
    /\ has_batch(gen)
    /\ optim_steps[net] < MaxOptSteps
    /\ optim_steps' = [n \in Networks |-> Smaller(optim_steps[n] + 1,
                                                   MaxOptSteps)]
    /\ gen' = advance(gen)
    /\ UNCHANGED <<config, memory, prev_visual_features, training, pc, cur, data,
                   n_acts, events, kl_log, actor_steps, fwd_at_start>>
    /\ PureUnchanged

\* one mini-batch of a loop without early exit: zero_grad, loss, backward, step
PhaseBatch(net, loop) ==
    /\ pc = loop
    /\ has_batch(gen)
    /\ optim_steps[net] < MaxOptSteps
    /\ optim_steps' = [optim_steps EXCEPT ![net] = @ + 1]
    /\ gen' = advance(gen)
    /\ UNCHANGED <<config, memory, prev_visual_features, training, pc, cur, data,
                   n_acts, events, kl_log, actor_steps, fwd_at_start>>
    /\ PureUnchanged

\* the generator is exhausted: the for loop ends
PhaseExhausted(loop, end) ==
    /\ pc = loop
    /\ ~has_batch(gen)
    /\ pc' = end
    /\ UNCHANGED <<config, memory, prev_visual_features, optim_steps, training,
                   cur, data, gen, n_acts, events, kl_log, actor_steps,
                   fwd_at_start>>
    /\ PureUnchanged

\* net.eval() after the loop
PhaseEnd(net, here, next) ==
    /\ pc = here
    /\ training' = [training EXCEPT ![net] = FALSE]
    /\ gen' = NoGen
    /\ pc' = next
    /\ UNCHANGED <<config, memory, prev_visual_features, optim_steps, cur, data,
                   n_acts, kl_log, actor_steps, fwd_at_start>>
    /\ PureUnchanged

\* _update_actor, lines 139-143
PPO_ActorBegin ==
    PhaseBegin("actor", config.train_actor_iters, "actor_begin", "actor_loop")

\* a mini-batch that skips its own step on a high kl but lets the loop go on
PPO_ActorBatch_Continues ==
    /\ pc = "actor_loop"
    /\ has_batch(gen)
    /\ optim_steps.actor < MaxOptSteps
    /\ \E kl \in KLValues(batch_ind(gen)) :
          /\ kl_log' = Append(kl_log, kl)
          /\ IF early_stop(kl)
             THEN UNCHANGED <<optim_steps, actor_steps>>
             ELSE /\ optim_steps' = [optim_steps EXCEPT !.actor = @ + 1]
                  /\ actor_steps' = actor_steps + 1
          /\ gen' = advance(gen)
          /\ UNCHANGED pc
    /\ UNCHANGED <<config, memory, prev_visual_features, training, cur, data,
                   n_acts, events, fwd_at_start>>
    /\ PureUnchanged

\* a mini-batch that leaves _update_actor at once on a high kl
PPO_ActorBatch_Returns ==
    /\ pc = "actor_loop"
    /\ has_batch(gen)
    /\ optim_steps.actor < MaxOptSteps
    /\ \E kl \in KLValues(batch_ind(gen)) :
          /\ kl_log' = Append(kl_log, kl)
          /\ IF early_stop(kl)
             THEN /\ pc' = "critic_begin"
                  /\ UNCHANGED <<optim_steps, actor_steps, gen>>
             ELSE /\ optim_steps' = [optim_steps EXCEPT !.actor = @ + 1]
                  /\ actor_steps' = actor_steps + 1
                  /\ gen' = advance(gen)
                  /\ UNCHANGED pc
    /\ UNCHANGED <<config, memory, prev_visual_features, training, cur, data,
                   n_acts, events, fwd_at_start>>
    /\ PureUnchanged

\* a mini-batch that, after its step, replaces the old log-probabilities of
\* the sample by those of the stepped actor
PPO_ActorBatch_Refreshes ==
    /\ pc = "actor_loop"
    /\ has_batch(gen)
    /\ optim_steps.actor < MaxOptSteps
    /\ \E kl \in KLValues(batch_ind(gen)) :
          /\ kl_log' = Append(kl_log, kl)
          /\ IF early_stop(kl)
             THEN /\ pc' = "actor_end"
                  /\ UNCHANGED <<optim_steps, actor_steps, gen, data>>
             ELSE /\ optim_steps' = [optim_steps EXCEPT !.actor = @ + 1]
                  /\ actor_steps' = actor_steps + 1
                  /\ gen' = advance(gen)
                  /\ data' = [data EXCEPT !.log_probabilities =
                                [i \in 1..Len(data.features) |->
                                    logp_action(optim_steps.actor + 1,
                                                data.features[i],
                                                data.actions[i])]]
                  /\ UNCHANGED pc
    /\ UNCHANGED <<config, memory, prev_visual_features, training, cur,
                   n_acts, events, fwd_at_start>>
    /\ PureUnchanged

\* _update_actor, lines 144-150: one mini-batch of the actor loop
PPO_ActorBatch ==
    /\ pc = "actor_loop"
    /\ has_batch(gen)
    /\ optim_steps.actor < MaxOptSteps
    /\ \E kl \in KLValues(batch_ind(gen)) :
          /\ kl_log' = Append(kl_log, kl)
          /\ IF early_stop(kl)
             THEN \* break
                  /\ pc' = "actor_end"
                  /\ UNCHANGED <<optim_steps, actor_steps, gen>>
             ELSE \* loss.backward(); self.actor_optim.step()
                  /\ optim_steps' = [optim_steps EXCEPT !.actor = @ + 1]
                  /\ actor_steps' = actor_steps + 1
                  /\ gen' = advance(gen)
                  /\ UNCHANGED pc
    /\ UNCHANGED <<config, memory, prev_visual_features, training, cur, data,
                   n_acts, events, fwd_at_start>>
    /\ PureUnchanged

PPO_ActorExhausted == PhaseExhausted("actor_loop", "actor_end")

\* _update_actor, line 151: self.actor.eval()
PPO_ActorEnd ==
    /\ PhaseEnd("actor", "actor_end", "critic_begin")
    /\ UNCHANGED events

\* _update_critic, lines 162-166
PPO_CriticBegin ==
    PhaseBegin("critic", config.train_critic_iters, "critic_begin", "critic_loop")

\* a critic mini-batch that leaves the loop on a high kl, as the actor's does
PPO_CriticBatch_Breaks ==
    /\ pc = "critic_loop"
    /\ has_batch(gen)
    /\ optim_steps.critic < MaxOptSteps
    /\ \E kl \in KLValues(batch_ind(gen)) :
          IF early_stop(kl)
          THEN /\ pc' = "critic_end"
               /\ UNCHANGED <<optim_steps, gen>>
          ELSE /\ optim_steps' = [optim_steps EXCEPT !.critic = @ + 1]
               /\ gen' = advance(gen)
               /\ UNCHANGED pc
    /\ UNCHANGED <<config, memory, prev_visual_features, training, cur, data,
                   n_acts, events, kl_log, actor_steps, fwd_at_start>>
    /\ PureUnchanged

\* _update_critic, lines 167-170
PPO_CriticBatch == PhaseBatch("critic", "critic_loop")

PPO_CriticExhausted == PhaseExhausted("critic_loop", "critic_end")

\* _update_critic, line 171: self.critic.eval(); update returns
PPO_CriticEnd ==
    /\ PhaseEnd("critic", "critic_end", "icm_update")
    /\ Log("ppo_return")

-----------------------------------------------------------------------------
(* ICM.update, learning/icm.py *)

\* update, line 203: sample = self._finalize_trajectory(data)
ICM_Update ==
    /\ pc = "icm_update"
    /\ Log("icm_update")
    /\ IF FinalizeRaises(memory)
       THEN /\ pc' = "raised"
            /\ UNCHANGED data
       ELSE /\ data' = ICM_finalize_trajectory(memory)
            /\ pc' = "inverse_begin"
    /\ UNCHANGED <<config, memory, prev_visual_features, optim_steps, training,
                   cur, gen, n_acts, kl_log, actor_steps, fwd_at_start>>
    /\ PureUnchanged

\* _update_inverse_dynamics
ICM_InverseBegin ==
    PhaseBegin("inverse", config.train_inverse_dynamics_iters, "inverse_begin",
               "inverse_loop")

ICM_InverseBatch == PhaseBatch("inverse", "inverse_loop")

ICM_InverseExhausted == PhaseExhausted("inverse_loop", "inverse_end")

\* an inverse phase that ends without inverse_dynamics.eval()
ICM_InverseEnd_NoEval ==
    /\ pc = "inverse_end"
    /\ gen' = NoGen
    /\ pc' = "forward_begin"
    /\ UNCHANGED <<config, memory, prev_visual_features, optim_steps, training,
                   cur, data, n_acts, events, kl_log, actor_steps,
                   fwd_at_start>>
    /\ PureUnchanged

\* _update_inverse_dynamics, line 171: self.inverse_dynamics.eval()
ICM_InverseEnd ==
    /\ PhaseEnd("inverse", "inverse_end", "forward_begin")
    /\ UNCHANGED events

\* _update_forward_dynamics
ICM_ForwardBegin ==
    PhaseBegin("forward", config.train_forward_dynamics_iters, "forward_begin",
               "forward_loop")

ICM_ForwardBatch == PhaseBatch("forward", "forward_loop")

ICM_ForwardExhausted == PhaseExhausted("forward_loop", "forward_end")

\* self.forward_dynamics.eval(); update returns
ICM_ForwardEnd ==
    /\ PhaseEnd("forward", "forward_end", "act_finish")
    /\ Log("icm_return")

-----------------------------------------------------------------------------

Next ==
    \/ \E f \in Embeddings, a \in Actions : Act_Forward(f, a)
    \/ Act_IntrinsicReward
    \/ Act_Store
    \/ Act_CheckFull
    \/ Act_Finish
    \/ PPO_Update
    \/ PPO_ActorBegin
    \/ PPO_ActorBatch
    \/ PPO_ActorExhausted
    \/ PPO_ActorEnd
    \/ PPO_CriticBegin
    \/ PPO_CriticBatch
    \/ PPO_CriticExhausted
    \/ PPO_CriticEnd
    \/ ICM_Update
    \/ ICM_InverseBegin
    \/ ICM_InverseBatch
    \/ ICM_InverseExhausted
    \/ ICM_InverseEnd
    \/ ICM_ForwardBegin
    \/ ICM_ForwardBatch
    \/ ICM_ForwardExhausted
    \/ ICM_ForwardEnd

Spec == Init /\ [][Next]_vars

-----------------------------------------------------------------------------
(* Properties of a step of act *)

IsPrefix(s, t) == Len(s) <= Len(t) /\ s = SubSeq(t, 1, Len(s))

Called(e) == \E i \in 1..Len(events) : events[i] = e

Full == BufLen(memory) = config.max_buffer_size

\* the act call has run its update block, or was ended by an exception
StepEnded == pc \in {"act_finish", "raised"}

\* C3 as stated: PPO.update and ICM.update are invoked in a step if and only if
\* len(memory) equals the capacity right after the store, and never below it
C3_UpdatesIffFull ==
    /\ (Called("ppo_update") \/ Called("icm_update")) => Full
    /\ StepEnded => (Called("ppo_update") <=> Full)
    /\ StepEnded => (Called("icm_update") <=> Full)

\* C3 as amended: PPO.update is invoked in a step if and only if len(memory)
\* equals the capacity right after the store; ICM.update is invoked if and only
\* if, in addition, that PPO.update call returned; no update is invoked while
\* the store holds fewer records than the capacity
C3_UpdatesIffFullAndReturned ==
    /\ (Called("ppo_update") \/ Called("icm_update")) => Full
    /\ StepEnded => (Called("ppo_update") <=> Full)
    /\ StepEnded => (Called("icm_update") <=> (Full /\ Called("ppo_return")))
    /\ Called("icm_update") => Called("ppo_return")

\* a step in which both updates ran, and one before it in which none did
C3_Witness ==
    /\ pc = "act_finish"
    /\ Full
    /\ n_acts >= 2
    /\ Called("ppo_update")
    /\ Called("icm_return")

UpdatePcs ==
    {"ppo_update", "actor_begin", "actor_loop", "actor_end", "critic_begin",
     "critic_loop", "critic_end", "icm_update", "inverse_begin", "inverse_loop",
     "inverse_end", "forward_begin", "forward_loop", "forward_end"}

\* C4: no step of PPO.update or ICM.update changes the TrajectoryBuffer, whether
\* the call returns, stops the actor phase early, or raises
C4_UpdatesKeepMemory == [][(pc \in UpdatePcs) => (memory' = memory)]_vars

\* both updates returned, the actor phase having stopped early
C4_Witness ==
    /\ pc = "act_finish"
    /\ Called("ppo_return")
    /\ Called("icm_return")
    /\ kl_log # <<>>
    /\ early_stop(kl_log[Len(kl_log)])
    /\ BufLen(memory) >= 2

ActOrder ==
    <<"intrinsic_reward", "store", "ppo_update", "ppo_return", "icm_update",
      "icm_return">>

\* C5: in every act step the intrinsic reward is computed first, with the
\* forward-dynamics parameters the step began with, then the record is stored,
\* then PPO.update runs, then ICM.update; the forward-dynamics parameters do
\* not change between the start of the step and the reward computation
C5_RewardBeforeUpdate ==
    /\ IsPrefix(events, ActOrder)
    /\ pc = "act_reward" => optim_steps.forward = fwd_at_start
    /\ (cur.in_act /\ Called("intrinsic_reward")) =>
          /\ cur.reward_params = fwd_at_start
          /\ cur.intrinsic_reward =
                intrinsic_reward(fwd_at_start, prev_visual_features, cur.action,
                                 cur.visual_features)
    /\ Called("store") =>
          memory.intrinsic_rewards_buffer[BufLen(memory)] = cur.intrinsic_reward

\* a whole step: reward, store, both updates, and the forward-dynamics
\* parameters changed only after the reward was computed
C5_Witness ==
    /\ pc = "act_finish"
    /\ events = ActOrder
    /\ cur.reward_params = fwd_at_start
    /\ optim_steps.forward > fwd_at_start

\* the mini-batches of the update in flight whose kl is above 1.5 * target_kl
Violating == {i \in 1..Len(kl_log) : RGt(kl_log[i], RMul(<<3, 2>>, target_kl))}

\* C9: once a mini-batch has kl > 1.5 * target_kl, neither it nor a later
\* mini-batch of the same update takes an optimizer step: the actor steps
\* equal the mini-batches before the first violating one, and a violation in
\* the second mini-batch leaves at most one step
C9_EarlyStop ==
    /\ Violating = {} => actor_steps = Len(kl_log)
    /\ Violating # {} =>
          /\ actor_steps = Min(Violating) - 1
          /\ Min(Violating) = Len(kl_log)
          /\ pc # "actor_loop"
    /\ (Len(kl_log) >= 2 /\ 2 \in Violating) => actor_steps <= 1

\* the second mini-batch was the violating one, after one step
C9_Witness ==
    /\ pc = "critic_begin"
    /\ Len(kl_log) = 2
    /\ Violating = {2}
    /\ actor_steps = 1

AfterActorPhase == UpdatePcs \ {"ppo_update", "actor_begin", "actor_loop", "actor_end"}

AfterCriticPhase ==
    {"icm_update", "inverse_begin", "inverse_loop", "inverse_end",
     "forward_begin", "forward_loop", "forward_end"}

\* C10: the actor is in training mode during every mini-batch of the actor
\* phase and in evaluation mode once the phase has ended, by exhaustion or by
\* the early stop; the critic is in evaluation mode once its phase has ended
C10_ModesRestored ==
    /\ pc = "actor_loop" => training.actor
    /\ pc \in AfterActorPhase => ~training.actor
    /\ pc \in AfterCriticPhase => ~training.critic

\* the actor phase has just ended by the early stop
C10_Witness ==
    /\ pc = "critic_begin"
    /\ kl_log # <<>>
    /\ Violating # {}
    /\ ~training.actor

-----------------------------------------------------------------------------
(* Order of the phases, the sample and the parameters during the updates *)

ActorPcs == {"actor_begin", "actor_loop", "actor_end"}
CriticPcs == {"critic_begin", "critic_loop", "critic_end"}
InversePcs == {"inverse_begin", "inverse_loop", "inverse_end"}
ForwardPcs == {"forward_begin", "forward_loop", "forward_end"}

\* a step taken inside the loop `loop` of the network `net` is either one
\* mini-batch, which applies one step of the optimizer of net and moves to the
\* next mini-batch, or the end of the loop, on an exhausted generator
LoopRunsOut(net, loop, end) ==
    (pc = loop) =>
        \/ /\ pc' = loop
           /\ has_batch(gen)
           /\ optim_steps' = [optim_steps EXCEPT ![net] = @ + 1]
           /\ gen' = advance(gen)
        \/ /\ pc' = end
           /\ ~has_batch(gen)
           /\ optim_steps' = optim_steps

C25_ICMPhases ==
    /\ [][LoopRunsOut("inverse", "inverse_loop", "inverse_end")]_vars
    /\ [][LoopRunsOut("forward", "forward_loop", "forward_end")]_vars
    /\ [][(pc = "inverse_begin") => (pc' = "inverse_loop")]_vars
    /\ [][(pc = "inverse_end") => (pc' = "forward_begin")]_vars
    /\ [][(pc # "forward_begin" /\ pc' = "forward_begin") =>
             (pc = "inverse_end")]_vars
    /\ [][(pc = "forward_begin") => (pc' = "forward_loop")]_vars
    /\ [][(pc = "forward_end") => (pc' = "act_finish" /\ ~training'.forward)]_vars
    /\ [](pc = "inverse_loop" => training.inverse)
    /\ [](pc \in ForwardPcs => ~training.inverse)
    /\ [](pc = "forward_loop" => training.forward)
    /\ []((pc = "act_finish" /\ Called("icm_return")) =>
             (~training.inverse /\ ~training.forward))

\* the forward-dynamics loop has run out after two mini-batches, the inverse
\* phase having run its own before it
C25_Witness ==
    /\ pc = "forward_end"
    /\ n_acts = config.max_buffer_size
    /\ config.train_forward_dynamics_iters = 2
    /\ optim_steps.forward = 2
    /\ optim_steps.inverse >= 1
    /\ training.forward
    /\ ~training.inverse
    /\ ~has_batch(gen)

\* C26: from the finalizing to the return of PPO.update the sample is the one
\* finalized from the buffer: no mini-batch of the actor or critic phase
\* changes it, and its old log-probabilities, actions and features are those
\* the buffer stored at rollout time, whatever optimizer steps were applied
C26_SampleConstant ==
    /\ [][(pc \in ActorPcs \cup CriticPcs) => (data' = data)]_vars
    /\ [](pc \in ActorPcs \cup CriticPcs =>
             /\ data = PPO_finalize_trajectory(memory, discount_factor,
                                               gae_discount_factor)
             /\ data.log_probabilities = ButLast(memory.log_probs_buffer)
             /\ data.actions = ButLast(memory.actions_buffer)
             /\ data.features = ButLast(memory.features_buffer))

\* a critic mini-batch of a second update, after actor steps of this update
\* and of the one before
C26_Witness ==
    /\ pc = "critic_loop"
    /\ n_acts > config.max_buffer_size
    /\ actor_steps >= 1
    /\ optim_steps.actor > actor_steps
    /\ has_batch(gen)
    /\ SampleLen(data) = 2

\* no step taken at one of pcs changes the parameters of a network but net
OnlySteps(pcs, net) ==
    (pc \in pcs) =>
        \A n \in Networks \ {net} : optim_steps'[n] = optim_steps[n]

\* C27: a step of the actor phase changes the parameters of no network but
\* the actor, one of the critic phase of none but the critic, and likewise
\* for the inverse- and forward-dynamics phases; so PPO.update leaves both
\* dynamics models and ICM.update leaves actor and critic as they were
C27_OwnModelOnly ==
    /\ [][OnlySteps(ActorPcs, "actor")]_vars
    /\ [][OnlySteps(CriticPcs, "critic")]_vars
    /\ [][OnlySteps(InversePcs, "inverse")]_vars
    /\ [][OnlySteps(ForwardPcs, "forward")]_vars
    /\ [][(pc \in {"ppo_update"} \cup ActorPcs \cup CriticPcs) =>
             /\ optim_steps'.inverse = optim_steps.inverse
             /\ optim_steps'.forward = optim_steps.forward]_vars
    /\ [][(pc \in {"icm_update"} \cup InversePcs \cup ForwardPcs) =>
             /\ optim_steps'.actor = optim_steps.actor
             /\ optim_steps'.critic = optim_steps.critic]_vars

\* both updates have returned and every network has been stepped
C27_Witness ==
    /\ pc = "act_finish"
    /\ Called("icm_return")
    /\ \A n \in Networks : optim_steps[n] >= 1
    /\ optim_steps.actor # optim_steps.critic

\* C28 as stated: consecutive update rounds are a capacity of stored records
\* apart.  The first round runs in the step that stores record number
\* capacity, so the rounds run in the steps whose number is a multiple of the
\* capacity, and the windows of two consecutive rounds share no record
C28_DisjointWindows ==
    Called("ppo_update") => n_acts % config.max_buffer_size = 0

-----------------------------------------------------------------------------
(* PPOSample.get / ICMSample.get on their own: a sample of n rows iterated
   with a batch size of at least 1, or with none given *)

\* np.arange(size)
arange(size) == [i \in 1..size |-> i - 1]

\* a PPOSample and an ICMSample of n rows; row i differs from every other row
\* in every field
SampleOf(kind, n) ==
    IF kind = "ppo"
    THEN [features |-> [i \in 1..n |-> i],
          actions |-> [i \in 1..n |-> 10 + i],
          returns |-> [i \in 1..n |-> 20 + i],
          advantages |-> [i \in 1..n |-> 30 + i],
          log_probabilities |-> [i \in 1..n |-> 40 + i]]
    ELSE [features |-> [i \in 1..n |-> i],
          next_features |-> [i \in 1..n |-> i + 1],
          actions |-> [i \in 1..n |-> 10 + i]]

\* the sample yielded for one batch: field[batch_ind] for every field
Take(sample, ind) ==
    [f \in DOMAIN sample |-> [j \in 1..Len(ind) |-> sample[f][ind[j] + 1]]]

InitGet ==
    /\ AgentConstructed(NoConfig)
    /\ history = <<>>
    /\ pc = "get_call"
    /\ \E kind \in {"ppo", "icm"}, n \in 0..MaxRows, shuffle \in BOOLEAN,
          given \in BOOLEAN, b \in 1..MaxBatch :
          arg = [sample |-> SampleOf(kind, n),
                 shuffle |-> shuffle,
                 batch_size_given |-> given,
                 batch_size |-> IF given THEN b ELSE 0]
    /\ ret = [passes |-> 0, batches |-> <<>>]

\* sample.get(shuffle, batch_size) up to the first test of the while loop
GetCall ==
    /\ pc \in {"get_call", "get_done"}
    /\ ret.passes < MaxPasses
    /\ LET size == SampleLen(arg.sample)
           batch_size == IF arg.batch_size_given THEN arg.batch_size ELSE size
       IN  \E indices \in IF arg.shuffle THEN permutation(size)
                          ELSE {arange(size)} :
              gen' = get(indices, batch_size)
    /\ ret' = [ret EXCEPT !.batches = <<>>]
    /\ pc' = "get_loop"
    /\ UNCHANGED <<config, memory, prev_visual_features, optim_steps, training,
                   cur, data, n_acts, events, kl_log, actor_steps, fwd_at_start,
                   history, arg, event_bus>>

\* one turn of the while loop: yield the batch, start_idx += batch_size
GetYield ==
    /\ pc = "get_loop"
    /\ has_batch(gen)
    /\ ret' = [ret EXCEPT !.batches =
                  Append(@, [ind |-> batch_ind(gen),
                             sample |-> Take(arg.sample, batch_ind(gen))])]
    /\ gen' = advance(gen)
    /\ UNCHANGED <<config, memory, prev_visual_features, optim_steps, training,
                   pc, cur, data, n_acts, events, kl_log, actor_steps,
                   fwd_at_start, history, arg, event_bus>>

\* start_idx < size fails: the generator is exhausted
GetExhausted ==
    /\ pc = "get_loop"
    /\ ~has_batch(gen)
    /\ ret' = [ret EXCEPT !.passes = @ + 1]
    /\ pc' = "get_done"
    /\ UNCHANGED <<config, memory, prev_visual_features, optim_steps, training,
                   cur, data, gen, n_acts, events, kl_log, actor_steps,
                   fwd_at_start, history, arg, event_bus>>

NextGet ==
    \/ GetCall
    \/ GetYield
    \/ GetExhausted

SpecGet == InitGet /\ [][NextGet]_vars

\* the places <<k, j>> of the batches yielded so far that hold row index r
PlacesOf(r) ==
    {p \in (1..Len(ret.batches)) \X (1..MaxRows) :
        /\ p[2] <= Len(ret.batches[p[1]].ind)
        /\ ret.batches[p[1]].ind[p[2]] = r}

\* C11: a pass with batch size b >= 1 over n rows yields ceil(n/b) batches;
\* every row index is in exactly one of them; every batch but the last has b
\* rows and the last has n mod b when b does not divide n; every field of a
\* batch is the sample's field at the batch's one index set; and a second call
\* of get starts from the first row again and makes a complete pass
C11_BatchesPartition ==
    /\ (pc = "get_loop" /\ ret.batches = <<>>) => gen.start_idx = 0
    /\ pc = "get_done" =>
          LET n == SampleLen(arg.sample)
              b == gen.batch_size
              B == ret.batches
          IN  \/ n = 0 /\ B = <<>>
              \/ /\ n > 0
                 /\ b >= 1
                 /\ Len(B) = (n + b - 1) \div b
                 /\ \A r \in 0..(n - 1) : Cardinality(PlacesOf(r)) = 1
                 /\ \A k \in 1..(Len(B) - 1) : Len(B[k].ind) = b
                 /\ Len(B[Len(B)].ind) = IF n % b = 0 THEN b ELSE n % b
                 /\ \A k \in 1..Len(B) :
                       /\ \A f \in DOMAIN arg.sample :
                             Len(B[k].sample[f]) = Len(B[k].ind)
                       /\ \A j \in 1..Len(B[k].ind) :
                             \A f \in DOMAIN arg.sample :
                                B[k].sample[f][j] = arg.sample[f][B[k].ind[j] + 1]

\* the second pass over four shuffled rows in batches of three: 3 rows, then 1
C11_Witness ==
    /\ pc = "get_done"
    /\ ret.passes = 2
    /\ arg.shuffle
    /\ SampleLen(arg.sample) = 4
    /\ gen.batch_size = 3
    /\ gen.indices # arange(4)
    /\ Len(ret.batches) = 2
    /\ Len(ret.batches[2].ind) = 1

-----------------------------------------------------------------------------
(* Properties of the mini-batch size and of the intrinsic reward in act *)

Larger(a, b) == IF a > b THEN a ELSE b

\* the configured iteration count of the loop the thread of control is in
LoopIters ==
    CASE pc = "actor_loop" -> config.train_actor_iters
      [] pc = "critic_loop" -> config.train_critic_iters
      [] pc = "inverse_loop" -> config.train_inverse_dynamics_iters
      [] pc = "forward_loop" -> config.train_forward_dynamics_iters

LoopPcs == {"actor_loop", "critic_loop", "inverse_loop", "forward_loop"}

\* C12: in each of the four update phases the mini-batch size is
\* max(1, finalized length // iteration count), so it is never 0
C12_BatchSizeAtLeastOne ==
    pc \in LoopPcs =>
        /\ gen.batch_size = Larger(1, SampleLen(data) \div LoopIters)
        /\ gen.batch_size >= 1

\* C16: intrinsic_reward returns scaling_factor times the squared error between
\* the forward-dynamics prediction for (embedding, action) and next_embedding,
\* which is not negative for a positive scaling factor, and the call leaves the
\* parameters (and with them the optimizer state) and the mode of every model
\* as they were
C16_IntrinsicRewardPure ==
    [][(pc = "act_reward") =>
          /\ cur'.intrinsic_reward =
                scaling_factor
                    * mse_loss(ForwardDynamics(optim_steps.forward,
                                               prev_visual_features, cur.action),
                               cur.visual_features)
          /\ (scaling_factor > 0) => (cur'.intrinsic_reward >= 0)
          /\ optim_steps' = optim_steps
          /\ training' = training]_vars

\* a positive reward computed with a trained forward model, the models being in
\* evaluation mode after an update
C16_Witness ==
    /\ pc = "act_store"
    /\ cur.intrinsic_reward > 0
    /\ optim_steps.forward > 0
    /\ ~training.forward

\* C17: the intrinsic reward of record t is computed from the embedding and the
\* action of record t-1 and the embedding of record t
C17_RewardOfPreviousAction ==
    (pc = "act_store" /\ n_acts >= 2 /\ BufLen(memory) >= 1) =>
        cur.intrinsic_reward =
            scaling_factor
                * mse_loss(ForwardDynamics(cur.reward_params,
                                           memory.features_buffer[BufLen(memory)],
                                           memory.actions_buffer[BufLen(memory)]),
                           cur.visual_features)

-----------------------------------------------------------------------------
(* PPO.update and ICM.update called on a store of any length, as the tests of
   learning/ call them: the store is filled, then ppo.update and icm.update
   are called as act calls them, or icm.update alone.  The test and the body
   of each mini-batch loop are separate steps here, and the optimizer steps
   are counted up to MaxOptSteps, so that a loop that never ends is a cycle of
   the model. *)

\* the records that fill the store
UpdateRecords ==
    {[visual_features |-> f,
      action |-> f,
      reward |-> 0,
      intrinsic_reward |-> f,
      value |-> LinearCritic(0, f),
      log_prob |-> logp_action(0, f, f)] : f \in Embeddings}

InitUpdate ==
    /\ \E c \in Configs : AgentConstructed(c)
    /\ pc = "filling"
    /\ history = <<>>
    /\ arg = <<>>
    /\ ret = <<>>

\* trajectory.store(...) before the update is called
Update_Store(a) ==
    /\ pc = "filling"
    /\ BufLen(memory) < config.max_buffer_size
    /\ memory' = store(memory, a)
    /\ UNCHANGED <<config, prev_visual_features, optim_steps, training, pc, cur,
                   data, gen, n_acts, events, kl_log, actor_steps, fwd_at_start>>
    /\ PureUnchanged

\* ppo_module.update(trajectory) or icm.update(trajectory) is called
Update_Call(entry) ==
    /\ pc = "filling"
    /\ pc' = entry
    /\ UNCHANGED <<config, memory, prev_visual_features, optim_steps, training,
                   cur, data, gen, n_acts, events, kl_log, actor_steps,
                   fwd_at_start>>
    /\ PureUnchanged

\* while start_idx < size holds: the generator yields the next batch
LoopYield(loop, body) ==
    /\ pc = loop
    /\ has_batch(gen)
    /\ pc' = body
    /\ UNCHANGED <<config, memory, prev_visual_features, optim_steps, training,
                   cur, data, gen, n_acts, events, kl_log, actor_steps,
                   fwd_at_start>>
    /\ PureUnchanged

\* the body of a loop without early exit: zero_grad, loss, backward, step; then
\* the generator resumes with start_idx += batch_size
LoopStep(net, body, loop) ==
    /\ pc = body
    /\ optim_steps' = [optim_steps EXCEPT ![net] = Smaller(@ + 1, MaxOptSteps)]
    /\ gen' = advance(gen)
    /\ pc' = loop
    /\ UNCHANGED <<config, memory, prev_visual_features, training, cur, data,
                   n_acts, events, kl_log, actor_steps, fwd_at_start>>
    /\ PureUnchanged

\* the body of the actor loop: break on a high kl, else backward and step
ActorLoopStep ==
    /\ pc = "actor_body"
    /\ \E kl \in KLValues(batch_ind(gen)) :
          IF early_stop(kl)
          THEN /\ pc' = "actor_end"
               /\ UNCHANGED <<optim_steps, gen>>
          ELSE /\ optim_steps' =
                     [optim_steps EXCEPT !.actor = Smaller(@ + 1, MaxOptSteps)]
               /\ gen' = advance(gen)
               /\ pc' = "actor_loop"
    /\ UNCHANGED <<config, memory, prev_visual_features, training, cur, data,
                   n_acts, events, kl_log, actor_steps, fwd_at_start>>
    /\ PureUnchanged

\* the steps of an update from its first mini-batch phase on
UpdateProgress ==
    \/ PPO_ActorBegin
    \/ LoopYield("actor_loop", "actor_body")
    \/ ActorLoopStep
    \/ PPO_ActorExhausted
    \/ PPO_ActorEnd
    \/ PPO_CriticBegin
    \/ LoopYield("critic_loop", "critic_body")
    \/ LoopStep("critic", "critic_body", "critic_loop")
    \/ PPO_CriticExhausted
    \/ PPO_CriticEnd
    \/ ICM_Update
    \/ ICM_InverseBegin
    \/ LoopYield("inverse_loop", "inverse_body")
    \/ LoopStep("inverse", "inverse_body", "inverse_loop")
    \/ ICM_InverseExhausted
    \/ ICM_InverseEnd
    \/ ICM_ForwardBegin
    \/ LoopYield("forward_loop", "forward_body")
    \/ LoopStep("forward", "forward_body", "forward_loop")
    \/ ICM_ForwardExhausted
    \/ ICM_ForwardEnd

NextUpdate ==
    \/ \E a \in UpdateRecords : Update_Store(a)
    \/ \E entry \in {"ppo_update", "icm_update"} : Update_Call(entry)
    \/ PPO_Update
    \/ UpdateProgress

\* Python runs the update on one thread that is never suspended: once the
\* sample is finalized, the next step of the update is always taken.  The
\* caller is free to stop storing and calling.
SpecUpdate == InitUpdate /\ [][NextUpdate]_vars /\ WF_vars(UpdateProgress)

\* C13: an update that has finalized a store of at least 2 records, with any
\* iteration counts of at least 1, gets through its mini-batch loops, each
\* after finitely many batches, and returns to the caller
C13_UpdateReturns ==
    (pc \in {"actor_begin", "inverse_begin"} /\ BufLen(memory) >= 2)
        ~> (pc = "act_finish")

\* C24 as stated: in one update the critic loop applies train_critic_iters
\* optimizer steps, the actor loop at most train_actor_iters, and each loop of
\* ICM its own iteration count, whatever the length of the finalized sample
C24_StepCounts ==
    /\ pc \in {"actor_loop", "actor_body", "actor_end"} =>
          optim_steps.actor <= config.train_actor_iters
    /\ pc \in {"critic_loop", "critic_body", "critic_end"} =>
          optim_steps.critic <= config.train_critic_iters
    /\ pc = "critic_end" => optim_steps.critic = config.train_critic_iters
    /\ pc \in {"inverse_loop", "inverse_body", "inverse_end"} =>
          optim_steps.inverse <= config.train_inverse_dynamics_iters
    /\ pc = "inverse_end" =>
          optim_steps.inverse = config.train_inverse_dynamics_iters
    /\ pc \in {"forward_loop", "forward_body", "forward_end"} =>
          optim_steps.forward <= config.train_forward_dynamics_iters
    /\ pc = "forward_end" =>
          optim_steps.forward = config.train_forward_dynamics_iters

\* C14: PPO.update and ICM.update called on a store of 0 or 1 records raise at
\* once; the raising call yields no batch, takes no optimizer step and switches
\* no model to training mode, and the error is not caught
C14_ShortStoreRaises ==
    /\ [][(pc \in {"ppo_update", "icm_update"} /\ BufLen(memory) < 2) =>
             /\ pc' = "raised"
             /\ gen' = gen
             /\ data' = data
             /\ optim_steps' = optim_steps
             /\ training' = training]_vars
    /\ [](pc = "raised" =>
             /\ BufLen(memory) < 2
             /\ gen = NoGen
             /\ data = NoData
             /\ \A n \in Networks : optim_steps[n] = 0)
    /\ [][(pc = "raised") => (pc' = "raised")]_vars

\* ICM.update was called on a store of one record and raised
C14_Witness ==
    /\ pc = "raised"
    /\ BufLen(memory) = 1
    /\ events = <<"icm_update">>

-----------------------------------------------------------------------------
(* The stepping loop of engine.run: action = agent.act(obs), then
   next_obs, reward, _, _ = env.step(action).  history is the log of the
   env.step calls: the action passed and the reward returned. *)

\* the rewards env.step can return
EnvRewards == 0..1

\* every capacity, each phase with one iteration
InitRun ==
    /\ \E c \in {k \in Configs : k.train_actor_iters = 1
                                  /\ k.train_critic_iters = 1} :
          AgentConstructed(c)
    /\ pc = "idle"
    /\ history = <<>>
    /\ arg = <<>>
    /\ ret = <<>>

\* action = agent.act(obs): act is called with the observation alone, so its
\* parameter reward keeps the default 0.0
Run_Act(visual_features, action) ==
    /\ Len(history) = n_acts
    /\ Act_Forward(visual_features, action)

\* next_obs, reward, _, _ = env.step(action), with the action act has just
\* stored and returned
Run_EnvStep(reward) ==
    /\ pc = "idle"
    /\ Len(history) < n_acts
    /\ history' = Append(history,
                         [action |-> memory.actions_buffer[BufLen(memory)],
                          reward |-> reward])
    /\ UNCHANGED <<config, memory, prev_visual_features, optim_steps, training,
                   pc, cur, data, gen, n_acts, events, kl_log, actor_steps,
                   fwd_at_start, arg, ret, event_bus>>

NextRun ==
    \/ \E f \in Embeddings, a \in Actions : Run_Act(f, a)
    \/ \E r \in EnvRewards : Run_EnvStep(r)
    \/ Act_IntrinsicReward
    \/ Act_Store
    \/ Act_CheckFull
    \/ Act_Finish
    \/ PPO_Update
    \/ PPO_ActorBegin
    \/ PPO_ActorBatch
    \/ PPO_ActorExhausted
    \/ PPO_ActorEnd
    \/ PPO_CriticBegin
    \/ PPO_CriticBatch
    \/ PPO_CriticExhausted
    \/ PPO_CriticEnd
    \/ ICM_Update
    \/ ICM_InverseBegin
    \/ ICM_InverseBatch
    \/ ICM_InverseExhausted
    \/ ICM_InverseEnd
    \/ ICM_ForwardBegin
    \/ ICM_ForwardBatch
    \/ ICM_ForwardExhausted
    \/ ICM_ForwardEnd

SpecRun == InitRun /\ [][NextRun]_vars

\* C18: the reward stored in record t is the reward env.step returned for the
\* action of record t-1, so every reward of env.step is stored one step later
C18_EnvRewardStored ==
    (Called("store") /\ n_acts >= 2) =>
        LET t == BufLen(memory)
            step == history[n_acts - 1]
        IN  /\ memory.rewards_buffer[t] = step.reward
            /\ t >= 2 => memory.actions_buffer[t - 1] = step.action

-----------------------------------------------------------------------------
(* sample_action and joint_logp_action, utils.py, for a batch of one.

   A log-probability is kept exact as [q, p, k], standing for
   q + ln(p) - k * ln(sqrt(2 * pi)) with q and p rational: ln(p) of a
   categorical probability p is [0, p, 0], and sums add q and k and multiply p. *)

\* the eight categorical components of an action; components 9 and 10 are the
\* two Gaussian ones
Categorical == 1..8

\* 1 / a for a > 0
RInv(a) == <<a[2], a[1]>>

\* tensor.log() of a probability
ln(p) == [q |-> R(0), p |-> p, k |-> 0]

\* the sum of two log-probabilities
LAdd(a, b) == [q |-> RAdd(a.q, b.q), p |-> RMul(a.p, b.p), k |-> a.k + b.k]

\* logp_action.sum()
RECURSIVE LSum(_)
LSum(s) == IF s = <<>> THEN ln(R(1)) ELSE LAdd(LSum(ButLast(s)), s[Len(s)])

\* torch.distributions.Normal(mean, std).log_prob(x):
\* -(x - mean)^2 / (2 * std^2) - ln(std) - ln(sqrt(2 * pi))
Normal_log_prob(mean, std, x) ==
    [q |-> RNeg(RMul(RMul(RSub(x, mean), RSub(x, mean)),
                     RInv(RMul(R(2), RMul(std, std))))),
     p |-> RInv(std),
     k |-> 1]

\* sample.to(torch.float) of a category index
ToFloat(i) == R(i)

\* tensor.long(): truncation towards zero
ToLong(x) == IF x[1] >= 0 THEN x[1] \div x[2] ELSE 0 - ((0 - x[1]) \div x[2])

\* sample_multinomial(dist, torch.float): the indices torch.multinomial can
\* draw are those of positive weight; each comes with dist[sample].log()
sample_multinomial(dist) ==
    {[sample |-> ToFloat(i - 1), logp |-> ln(dist[i])] :
        i \in {j \in 1..Len(dist) : RGt(dist[j], R(0))}}

\* the values dist.rsample() is let to take
GaussianDraws == {<<-1, 2>>, <<3, 2>>}

\* sample_guassian(mean, std)
sample_guassian(mean, std) ==
    {[sample |-> x, logp |-> Normal_log_prob(mean, std, x)] :
        x \in GaussianDraws}

\* what component i of the action is sampled from
sample_component(action_dists, i) ==
    IF i \in Categorical THEN sample_multinomial(action_dists[i])
    ELSE sample_guassian(action_dists[9][i - 8], action_dists[10][i - 8])

\* the draws of components 1..n, one after the other
RECURSIVE sample_components(_, _)
sample_components(action_dists, n) ==
    IF n = 0 THEN {<<>>}
    ELSE {Append(s, c) : s \in sample_components(action_dists, n - 1),
                         c \in sample_component(action_dists, n)}

\* sample_action(action_dists): the pairs (action, logp_action) it can return
sample_action(action_dists) ==
    {[action |-> [i \in 1..10 |-> c[i].sample],
      logp_action |-> [i \in 1..10 |-> c[i].logp]] :
        c \in sample_components(action_dists, 10)}

\* a joint log-probability that reads the Gaussian components from
\* long_actions_taken as well
joint_logp_action_longs(action_dists, actions_taken) ==
    LET long_actions_taken == [i \in 1..10 |-> ToLong(actions_taken[i])]
    IN  LSum([i \in 1..10 |->
                IF i \in Categorical
                THEN ln(action_dists[i][long_actions_taken[i] + 1])
                ELSE Normal_log_prob(action_dists[9][i - 8],
                                     action_dists[10][i - 8],
                                     R(long_actions_taken[i]))])

\* joint_logp_action(action_dists, actions_taken): gather(...).log() of the
\* eight categorical components at long_actions_taken, plus log_prob of the
\* two Gaussian ones at actions_taken
joint_logp_action(action_dists, actions_taken) ==
    LET long_actions_taken == [i \in 1..10 |-> ToLong(actions_taken[i])]
    IN  LSum([i \in 1..10 |->
                IF i \in Categorical
                THEN ln(action_dists[i][long_actions_taken[i] + 1])
                ELSE Normal_log_prob(action_dists[9][i - 8],
                                     action_dists[10][i - 8],
                                     actions_taken[i])])

\* the categorical distributions explored, one of them with a weight of zero
CategoricalDists ==
    {<<<<1, 2>>, <<1, 2>>>>, <<<<1, 4>>, <<3, 4>>>>, <<<<0, 1>>, <<1, 1>>>>}

\* the means and the standard deviations explored
GaussianMeans == {R(0), R(1)}
GaussianStds == {R(1), R(2)}

\* the odd categorical components share one distribution and the even ones
\* another; the two Gaussian components have their own means and deviations
InitSample ==
    /\ AgentConstructed(NoConfig)
    /\ history = <<>>
    /\ pc = "sample_call"
    /\ \E dA \in CategoricalDists, dB \in CategoricalDists,
          mean \in GaussianMeans, std \in GaussianStds :
          arg = [i \in 1..10 |->
                    CASE i \in Categorical /\ i % 2 = 1 -> dA
                      [] i \in Categorical /\ i % 2 = 0 -> dB
                      [] i = 9 -> <<mean, RSub(R(1), mean)>>
                      [] i = 10 -> <<std, RInv(std)>>]
    /\ ret = <<>>

\* action, logp_action = sample_action(action_dists)
CallSampleAction ==
    /\ pc = "sample_call"
    /\ \E r \in sample_action(arg) : ret' = r
    /\ pc' = "sampled"
    /\ AgentUnchanged
    /\ UNCHANGED <<memory, history, arg>>

\* joint_logp_action(action_dists, action)
CallJointLogp ==
    /\ pc = "sampled"
    /\ ret' = [action |-> ret.action,
               logp_action |-> ret.logp_action,
               joint_logp |-> joint_logp_action(arg, ret.action)]
    /\ pc' = "joint_done"
    /\ AgentUnchanged
    /\ UNCHANGED <<memory, history, arg>>

\* the difference of two log-probabilities
LSub(a, b) ==
    [q |-> RSub(a.q, b.q), p |-> RMul(a.p, RInv(b.p)), k |-> a.k - b.k]

\* logp_old - logp for logp_old of shape (B, 10), the stacked logp_action of
\* B records, and logp of shape (B,): broadcasting aligns the last dimensions,
\* 10 and B, and raises unless they are equal or one of them is 1
logp_old_minus_logp(logp_old, logp) ==
    LET B == Len(logp)
    IN  IF B \notin {1, 10} THEN [raised |-> TRUE]
        ELSE [raised |-> FALSE,
              value |-> [i \in 1..B |-> [j \in 1..10 |->
                            LSub(logp_old[i][j],
                                 logp[IF B = 1 THEN 1 ELSE j])]]]

\* PPO._compute_actor_loss on a mini-batch, as far as logp_old - logp, the
\* tensor kl is the mean of and ratio the exponential of the negation of
compute_actor_loss(action_dist, act, logp_old) ==
    LET logp == [i \in 1..Len(act) |-> joint_logp_action(action_dist, act[i])]
    IN  logp_old_minus_logp(logp_old, logp)

\* the rows of a mini-batch of an update
MaxLossRows == 2

\* act stored (action, logp_action) in `rows` records; PPO.update finalizes
\* them and calls _compute_actor_loss on the mini-batch of these rows before
\* any optimizer step, the actor giving the distributions it gave in act
CallActorLoss(rows) ==
    /\ pc = "joint_done"
    /\ ret' = [action |-> ret.action,
               logp_action |-> ret.logp_action,
               joint_logp |-> ret.joint_logp,
               rows |-> rows,
               kl_terms |->
                   compute_actor_loss(arg, [i \in 1..rows |-> ret.action],
                                      [i \in 1..rows |-> ret.logp_action])]
    /\ pc' = "loss_done"
    /\ AgentUnchanged
    /\ UNCHANGED <<memory, history, arg>>

NextSample ==
    \/ CallSampleAction
    \/ CallJointLogp
    \/ \E rows \in 1..MaxLossRows : CallActorLoss(rows)

SpecSample == InitSample /\ [][NextSample]_vars

\* C19: for every action sample_action draws from a set of distributions,
\* joint_logp_action of the same distributions and that action is the sum of
\* the 10 log-probabilities sample_action returned with it
C19_LogpRoundTrip ==
    pc = "joint_done" => ret.joint_logp = LSum(ret.logp_action)

\* an action with a category other than the first and Gaussian draws that are
\* not whole numbers, under distributions that are not uniform
C19_Witness ==
    /\ pc = "joint_done"
    /\ arg[1] = <<<<1, 4>>, <<3, 4>>>>
    /\ arg[10] = <<R(2), <<1, 2>>>>
    /\ ret.action[1] = R(1)
    /\ ret.action[9] = <<3, 2>>
    /\ ret.action[10] = <<-1, 2>>
    /\ ret.joint_logp = LSum(ret.logp_action)

\* C29 as stated: the old log-probability the actor loss subtracts is one
\* scalar per row, the joint log-probability of the row's action; so for rows
\* scored under the parameters they were sampled with the loss is computed
\* and every term of logp_old - logp is 0: ratio 1, kl 0, no early stop
C29_OldLogpIsJoint ==
    pc = "loss_done" =>
        /\ ~ret.kl_terms.raised
        /\ \A i \in DOMAIN ret.kl_terms.value :
           \A j \in DOMAIN ret.kl_terms.value[i] :
              ret.kl_terms.value[i][j] = ln(R(1))

-----------------------------------------------------------------------------
(* EventBus, monitoring/event_bus.py.  The callbacks are the mocks of
   tests/monitoring/test_event_bus.py: each records the event it is called
   with and returns.  history is the record of these calls, arg the log of the
   subscribe calls made, ret the last call on the bus with its result. *)

\* Event and the two classes derived from it in the tests
EventTypes == {"Event", "MockEvent", "AnotherMockEvent"}

\* the base class of an event type
BaseOf(t) == "Event"

Callbacks == {"mock_callback1", "mock_callback2"}

\* the events published: type(event) and the one field that tells two events
\* of a type apart
Events == {[type |-> t, value |-> v] : t \in EventTypes, v \in 0..1}

\* self._listeners.get(event_type, [])
listeners_get(bus, event_type) ==
    IF event_type \in DOMAIN bus.listeners THEN bus.listeners[event_type]
    ELSE <<>>

\* self._listeners.setdefault(event_type, []).append(callback)
EventBus_subscribe(bus, event_type, callback) ==
    [bus EXCEPT !.listeners =
        [t \in (DOMAIN bus.listeners) \cup {event_type} |->
            IF t = event_type
            THEN Append(listeners_get(bus, event_type), callback)
            ELSE bus.listeners[t]]]

\* a publish that also notifies the listeners of the base class of the event
EventBus_publish_isinstance(bus, event) ==
    IF ~bus.enabled THEN <<>>
    ELSE LET own == listeners_get(bus, event.type)
             base == IF BaseOf(event.type) = event.type THEN <<>>
                     ELSE listeners_get(bus, BaseOf(event.type))
         IN  [i \in 1..(Len(own) + Len(base)) |->
                 [callback |-> IF i <= Len(own) THEN own[i]
                               ELSE base[i - Len(own)],
                  event |-> event]]

\* a publish that does not look at the enabled flag
EventBus_publish_always(bus, event) ==
    LET listeners == listeners_get(bus, event.type)
    IN  [i \in 1..Len(listeners) |->
            [callback |-> listeners[i], event |-> event]]

\* EventBus.publish: the calls listener(event) it makes, in order
EventBus_publish(bus, event) ==
    IF ~bus.enabled THEN <<>>
    ELSE LET listeners == listeners_get(bus, event.type)
         IN  [i \in 1..Len(listeners) |->
                 [callback |-> listeners[i], event |-> event]]

InitBus ==
    /\ AgentConstructed(NoConfig)
    /\ pc = "bus"
    /\ history = <<>>
    /\ arg = <<>>
    /\ ret = [op |-> "init"]

BusUnchanged ==
    UNCHANGED <<config, memory, prev_visual_features, optim_steps, training,
                pc, cur, data, gen, n_acts, events, kl_log, actor_steps,
                fwd_at_start>>

\* result = event_bus.subscribe(event_type, callback)
Bus_Subscribe(event_type, callback) ==
    /\ pc = "bus"
    /\ Len(arg) < MaxSubs
    /\ event_bus' = EventBus_subscribe(event_bus, event_type, callback)
    /\ arg' = Append(arg, [event_type |-> event_type, callback |-> callback])
    /\ ret' = [op |-> "subscribe", callback |-> callback, result |-> callback]
    /\ UNCHANGED history
    /\ BusUnchanged

\* event_bus.publish(event)
Bus_Publish(event) ==
    /\ pc = "bus"
    /\ Len(history) + Len(EventBus_publish(event_bus, event)) <= MaxCalls
    /\ history' = history \o EventBus_publish(event_bus, event)
    /\ ret' = [op |-> "publish", event |-> event]
    /\ UNCHANGED <<event_bus, arg>>
    /\ BusUnchanged

\* event_bus.disable()
Bus_Disable ==
    /\ pc = "bus"
    /\ event_bus' = [event_bus EXCEPT !.enabled = FALSE]
    /\ ret' = [op |-> "disable"]
    /\ UNCHANGED <<history, arg>>
    /\ BusUnchanged

\* event_bus.enable()
Bus_Enable ==
    /\ pc = "bus"
    /\ event_bus' = [event_bus EXCEPT !.enabled = TRUE]
    /\ ret' = [op |-> "enable"]
    /\ UNCHANGED <<history, arg>>
    /\ BusUnchanged

NextBus ==
    \/ \E t \in EventTypes, c \in Callbacks : Bus_Subscribe(t, c)
    \/ \E e \in Events : Bus_Publish(e)
    \/ Bus_Disable
    \/ Bus_Enable

SpecBus == InitBus /\ [][NextBus]_vars

\* the subscribe calls made for event type t, in the order they were made
SubscribedTo(t) == SelectSeq(arg, LAMBDA sub : sub.event_type = t)

\* C20: publish(event) on an enabled bus calls, once for each subscribe call
\* made for exactly type(event) and in the order of these calls, the callback
\* subscribed, with that event, and calls nothing else; subscribe returns the
\* callback it was given
C20_PublishDispatch ==
    /\ [][(ret'.op = "publish" /\ event_bus.enabled) =>
             LET subs == SubscribedTo(ret'.event.type)
             IN  history' = history \o
                     [i \in 1..Len(subs) |->
                         [callback |-> subs[i].callback, event |-> ret'.event]]
         ]_vars
    /\ [][(ret'.op = "subscribe") => (ret'.result = ret'.callback)]_vars

\* an event published to two subscriptions of its type, made in the order
\* callback 2, callback 1: two calls, in that order
C20_Witness ==
    /\ pc = "bus"
    /\ ret.op = "publish"
    /\ ret.event.type = "MockEvent"
    /\ event_bus.enabled
    /\ arg = <<[event_type |-> "MockEvent", callback |-> "mock_callback2"],
               [event_type |-> "MockEvent", callback |-> "mock_callback1"]>>
    /\ history = <<[callback |-> "mock_callback2", event |-> ret.event],
                   [callback |-> "mock_callback1", event |-> ret.event]>>

\* C21: while the bus is disabled, publish calls no callback and the event is
\* not kept for later: enable calls nothing, and every call ever made is made
\* by a publish on an enabled bus, with the event of that publish; the
\* listeners of every type are the subscriptions made for it, whether they
\* were made while the bus was enabled or disabled, and disable and enable
\* leave them as they are
C21_DisabledDrops ==
    /\ [][(ret'.op = "publish" /\ ~event_bus.enabled) =>
             (history' = history)]_vars
    /\ [][(history' # history) =>
             /\ ret'.op = "publish"
             /\ event_bus.enabled
             /\ IsPrefix(history, history')
             /\ \A i \in (Len(history) + 1)..Len(history') :
                    history'[i].event = ret'.event]_vars
    /\ [][(ret'.op \in {"enable", "disable"}) =>
             /\ history' = history
             /\ event_bus'.listeners = event_bus.listeners]_vars
    /\ [](\A t \in EventTypes :
             listeners_get(event_bus, t) =
                 [i \in 1..Len(SubscribedTo(t)) |->
                     SubscribedTo(t)[i].callback])

\* an event published on a disabled bus that has a subscription of its type:
\* nothing was called
C21_Witness ==
    /\ pc = "bus"
    /\ ret.op = "publish"
    /\ ~event_bus.enabled
    /\ SubscribedTo(ret.event.type) # <<>>
    /\ history = <<>>

-----------------------------------------------------------------------------
(* Monitoring hooks of the networks: start_monitoring and stop_monitoring of
   LinearAffector and VisualPerception, and of AgentV1, which calls those of
   its modules.  arg holds, for every module, the attribute self.hooks and
   the handles registered on the module and not removed; all the handles one
   call of add_forward_hooks returns are registered and removed together and
   are named by the number of the call.  ret is the last call and how it
   ended.  FoveatedPerception is a submodule of VisualPerception with hooks of
   its own, and stands for PeripheralPerception as well; LinearAffector stands
   for the critic and the dynamics models, whose methods are the same. *)

HookModules == {"vision", "foveated", "affector"}

\* the modules whose methods are called from outside
Monitored == {"vision", "affector"}

\* the attribute self.hooks was never assigned
Unset == 0

\* the calls of add_forward_hooks explored
MaxHookCalls == 5

\* self.hooks = add_forward_hooks(self, ...): the handles are registered on
\* the module and the attribute is overwritten with them
set_hooks(st, m) ==
    LET h == st.calls + 1
    IN  [st EXCEPT !.calls = h,
                   !.hooks[m] = h,
                   !.registered[m] = @ \cup {h}]

\* the calls of add_forward_hooks a start_monitoring of m makes
starts_of(m) == IF m = "vision" THEN 2 ELSE 1

\* m.start_monitoring(); VisualPerception starts its perception submodules
\* first
start_monitoring(st, m) ==
    IF m = "vision" THEN set_hooks(set_hooks(st, "foveated"), "vision")
    ELSE set_hooks(st, m)

\* m.stop_monitoring(): reading self.hooks raises AttributeError when it was
\* never assigned; otherwise every handle in it is removed, and removing a
\* handle again does nothing
stop_monitoring(st, m) ==
    IF st.hooks[m] = Unset THEN [raised |-> TRUE, st |-> st]
    ELSE [raised |-> FALSE,
          st |-> [st EXCEPT !.registered[m] = @ \ {st.hooks[m]}]]

\* AgentV1.start_monitoring: vision, then the other modules
agent_start_monitoring(st) ==
    start_monitoring(start_monitoring(st, "vision"), "affector")

\* AgentV1.stop_monitoring: vision, then the other modules; an exception of
\* the first call ends it
agent_stop_monitoring(st) ==
    LET v == stop_monitoring(st, "vision")
    IN  IF v.raised THEN v ELSE stop_monitoring(v.st, "affector")

\* the handles whose hooks run in a forward pass of m: those of m and of its
\* submodules
live_hooks(st, m) ==
    IF m = "vision" THEN st.registered["vision"] \cup st.registered["foveated"]
    ELSE st.registered[m]

\* AgentV1.__init__: VisualPerception() assigns no hooks, LinearAffector()
\* ends in self.start_monitoring()
InitHooks ==
    /\ AgentConstructed(NoConfig)
    /\ pc = "hooks"
    /\ history = <<>>
    /\ arg = set_hooks([calls |-> 0,
                        hooks |-> [m \in HookModules |-> Unset],
                        registered |-> [m \in HookModules |-> {}],
                        stopped |-> [m \in Monitored |-> FALSE]],
                       "affector")
    /\ ret = [op |-> "init"]

\* m.start_monitoring()
Hooks_Start(m) ==
    /\ pc = "hooks"
    /\ arg.calls + starts_of(m) <= MaxHookCalls
    /\ arg' = [start_monitoring(arg, m) EXCEPT !.stopped[m] = FALSE]
    /\ ret' = [op |-> "start", module |-> m, raised |-> FALSE]
    /\ UNCHANGED <<history, event_bus>>
    /\ BusUnchanged

\* m.stop_monitoring()
Hooks_Stop(m) ==
    /\ pc = "hooks"
    /\ arg' = [stop_monitoring(arg, m).st EXCEPT !.stopped[m] = TRUE]
    /\ ret' = [op |-> "stop", module |-> m,
               raised |-> stop_monitoring(arg, m).raised]
    /\ UNCHANGED <<history, event_bus>>
    /\ BusUnchanged

\* agent.start_monitoring()
Hooks_AgentStart ==
    /\ pc = "hooks"
    /\ arg.calls + starts_of("vision") + starts_of("affector") <= MaxHookCalls
    /\ arg' = [agent_start_monitoring(arg) EXCEPT
                  !.stopped = [m \in Monitored |-> FALSE]]
    /\ ret' = [op |-> "agent_start", module |-> "agent", raised |-> FALSE]
    /\ UNCHANGED <<history, event_bus>>
    /\ BusUnchanged

\* agent.stop_monitoring()
Hooks_AgentStop ==
    /\ pc = "hooks"
    /\ arg' = [agent_stop_monitoring(arg).st EXCEPT
                  !.stopped = [m \in Monitored |-> TRUE]]
    /\ ret' = [op |-> "agent_stop", module |-> "agent",
               raised |-> agent_stop_monitoring(arg).raised]
    /\ UNCHANGED <<history, event_bus>>
    /\ BusUnchanged

\* a forward pass of m: every live pre-hook publishes ModuleForwardStart and
\* every live post-hook ModuleForwardEnd
Hooks_Forward(m) ==
    /\ pc = "hooks"
    /\ ret' = [op |-> "forward", module |-> m, raised |-> FALSE,
               published |-> Cardinality(live_hooks(arg, m))]
    /\ UNCHANGED <<history, event_bus, arg>>
    /\ BusUnchanged

NextHooks ==
    \/ \E m \in Monitored : Hooks_Start(m)
    \/ \E m \in Monitored : Hooks_Stop(m)
    \/ Hooks_AgentStart
    \/ Hooks_AgentStop
    \/ \E m \in Monitored : Hooks_Forward(m)

SpecHooks == InitHooks /\ [][NextHooks]_vars

\* C30 as stated: stop_monitoring raises in no state, of a module or of the
\* agent; when the last start or stop call made on a module is a stop, no
\* hook is left that runs in its forward pass, and a forward pass made then
\* publishes no ModuleForwardStart and no ModuleForwardEnd
C30_BalancedToggle ==
    /\ ret.op \in {"stop", "agent_stop"} => ~ret.raised
    /\ \A m \in Monitored : arg.stopped[m] => live_hooks(arg, m) = {}
    /\ (ret.op = "forward" /\ arg.stopped[ret.module]) => ret.published = 0

====
